---- MODULE Spec2Model ----
(***************************************************************************)
(* PromptOptimizer and the command-line loop of src/src/main.py.           *)
(*                                                                         *)
(* Text is a sequence of characters.  A character is a string: an ASCII    *)
(* character stands for itself, any other character is written by its      *)
(* code point ("U5E2E" is 帮), and "LF", "QUOTE", "BSLASH" are the newline, *)
(* the double quote and the backslash.  Positions are 1-based; a position  *)
(* of 0 is Python's -1 / None ("not found").                               *)
(***************************************************************************)
EXTENDS Integers, Sequences, FiniteSets, TLC

VARIABLES
    pc,               \* where main() is; "lib" when the optimizer is called as a library
    optimized_json,   \* main's optimized_json: <<>> until assigned, then <<text>>
    user_input,       \* main's user_input / the text a library caller holds
    arg,              \* the natural_prompt parameter of the latest optimize_prompt call
    analysis,         \* the analysis mapping of the latest call, <<>> or <<mapping>>
    optimized_prompt, \* the PromptStructure of the latest optimize_prompt call
    result,           \* the text the latest optimize_prompt call returned
    calls,            \* optimize_prompt calls since user_input was assigned
    raised,           \* the exception in flight or just handled, "none" if none
    stdout            \* what the last print of the loop wrote

vars == <<pc, optimized_json, user_input, arg, analysis, optimized_prompt, result,
          calls, raised, stdout>>

\* Bounds of the inputs the model draws.
MaxTaskTokens == 3
MaxReqTokens == 4
MaxCtxTokens == 3
MaxKeywordTokens == 3
MaxJsonTokens == 3
MaxPad == 1

LF == "LF"
QUOTE == "QUOTE"
BSLASH == "BSLASH"
COMMA == "UFF0C"     \* ，
PERIOD == "U3002"    \* 。

\* str.strip() with no argument removes leading and trailing whitespace.
Whitespace == {" ", LF}

\* The characters the regex alternation (?:，|。|$) consumes.
Terminators == {COMMA, PERIOD}

(***************************************************************************)
(* Python string primitives                                                *)
(***************************************************************************)

\* s[i:i+len(kw)] == kw
HasAt(s, i, kw) ==
    /\ i >= 1
    /\ i + Len(kw) - 1 <= Len(s)
    /\ \A k \in 1..Len(kw) : s[i + k - 1] = kw[k]

\* s.find(kw, start): the lowest position >= start where kw occurs, else 0.
RECURSIVE Find(_, _, _)
Find(s, kw, start) ==
    IF start + Len(kw) - 1 > Len(s) THEN 0
    ELSE IF HasAt(s, start, kw) THEN start
    ELSE Find(s, kw, start + 1)

\* kw in s
Contains(kw, s) == Find(s, kw, 1) # 0

\* s.strip()
strip(s) ==
    LET keep == {i \in 1..Len(s) : s[i] \notin Whitespace}
        lo == CHOOSE i \in keep : \A j \in keep : i <= j
        hi == CHOOSE i \in keep : \A j \in keep : j <= i
    IN IF keep = {} THEN <<>> ELSE SubSeq(s, lo, hi)

(***************************************************************************)
(* Regular expressions  lead(.*?)(?:，|。|$)                                *)
(***************************************************************************)

\* $ without re.MULTILINE: the end of the string, or just before a newline
\* that is the last character.
AtEnd(s, j) == j = Len(s) + 1 \/ (j = Len(s) /\ s[j] = LF)

\* The lazy group compiled with re.DOTALL: . matches the newline too.
RECURSIVE LazyEnd_dotall(_, _)
LazyEnd_dotall(s, j) ==
    IF j <= Len(s) /\ s[j] \in Terminators THEN j
    ELSE IF AtEnd(s, j) THEN j
    ELSE LazyEnd_dotall(s, j + 1)

\* The lazy group (.*?) starting at j, followed by (?:，|。|$): the position
\* where the terminator is found, or 0 when a newline (which . does not
\* match) comes first.
RECURSIVE LazyEnd(_, _)
LazyEnd(s, j) ==
    IF j <= Len(s) /\ s[j] \in Terminators THEN j
    ELSE IF AtEnd(s, j) THEN j
    ELSE IF s[j] = LF THEN 0
    ELSE LazyEnd(s, j + 1)

NoMatch == [found |-> FALSE, from |-> 0, to |-> 0, next |-> 0]

\* re.search from position i (re.search(pattern, s) is re_search(lead, s, 1)):
\* the leftmost match; from..to is group(1), next is where the match ends.
RECURSIVE re_search(_, _, _)
re_search(lead, s, i) ==
    IF i + Len(lead) - 1 > Len(s) THEN NoMatch
    ELSE IF HasAt(s, i, lead) /\ LazyEnd(s, i + Len(lead)) # 0
         THEN LET j == LazyEnd(s, i + Len(lead))
              IN [found |-> TRUE, from |-> i + Len(lead), to |-> j - 1,
                  next |-> IF j <= Len(s) /\ s[j] \in Terminators
                           THEN j + 1 ELSE j]
    ELSE re_search(lead, s, i + 1)

\* match.group(1)
group1(s, m) == SubSeq(s, m.from, m.to)

\* A findall that stops after the first match.
re_findall_first(lead, s, i) ==
    LET m == re_search(lead, s, i)
    IN IF m.found THEN <<group1(s, m)>> ELSE <<>>

\* re.findall: group(1) of every non-overlapping match, left to right.
RECURSIVE re_findall(_, _, _)
re_findall(lead, s, i) ==
    LET m == re_search(lead, s, i)
    IN IF m.found THEN <<group1(s, m)>> \o re_findall(lead, s, m.next)
       ELSE <<>>

(***************************************************************************)
(* PromptOptimizer.__init__: the keyword tables, in declaration order      *)
(***************************************************************************)

role_keywords == <<
    [keyword |-> <<"U4E13", "U5BB6">>, value |-> <<"e", "x", "p", "e", "r", "t">>],
    [keyword |-> <<"U52A9", "U624B">>, value |-> <<"a", "s", "s", "i", "s", "t", "a", "n", "t">>],
    [keyword |-> <<"U8001", "U5E08">>, value |-> <<"t", "e", "a", "c", "h", "e", "r">>],
    [keyword |-> <<"U5206", "U6790", "U5E08">>, value |-> <<"a", "n", "a", "l", "y", "s", "t">>],
    [keyword |-> <<"U987E", "U95EE">>, value |-> <<"c", "o", "n", "s", "u", "l", "t", "a", "n", "t">>],
    [keyword |-> <<"U4F5C", "U5BB6">>, value |-> <<"w", "r", "i", "t", "e", "r">>] >>

\* The task patterns with 请 declared before 帮我.
task_patterns_please_first == << <<"U8BF7">>, <<"U5E2E", "U6211">>, <<"U9700", "U8981">>, <<"U60F3", "U8981">> >>

\* The lead-in of each pattern; every pattern ends in (.*?)(?:，|。|$).
\* 帮我, 请, 需要, 想要
task_patterns == << <<"U5E2E", "U6211">>, <<"U8BF7">>, <<"U9700", "U8981">>, <<"U60F3", "U8981">> >>

format_keywords == <<
    [keyword |-> <<"U5217", "U8868">>, value |-> <<"l", "i", "s", "t">>],
    [keyword |-> <<"U8868", "U683C">>, value |-> <<"t", "a", "b", "l", "e">>],
    [keyword |-> <<"U6BB5", "U843D">>, value |-> <<"p", "a", "r", "a", "g", "r", "a", "p", "h">>],
    [keyword |-> <<"U8981", "U70B9">>, value |-> <<"b", "u", "l", "l", "e", "t", "_", "p", "o", "i", "n", "t", "s">>],
    [keyword |-> <<"U4EE3", "U7801">>, value |-> <<"c", "o", "d", "e">>],
    [keyword |-> <<"U62A5", "U544A">>, value |-> <<"r", "e", "p", "o", "r", "t">>] >>

tone_keywords == <<
    [keyword |-> <<"U4E13", "U4E1A">>, value |-> <<"p", "r", "o", "f", "e", "s", "s", "i", "o", "n", "a", "l">>],
    [keyword |-> <<"U53CB", "U597D">>, value |-> <<"f", "r", "i", "e", "n", "d", "l", "y">>],
    [keyword |-> <<"U6B63", "U5F0F">>, value |-> <<"f", "o", "r", "m", "a", "l">>],
    [keyword |-> <<"U5E7D", "U9ED8">>, value |-> <<"h", "u", "m", "o", "r", "o", "u", "s">>],
    [keyword |-> <<"U7B80", "U6D01">>, value |-> <<"c", "o", "n", "c", "i", "s", "e">>],
    [keyword |-> <<"U8BE6", "U7EC6">>, value |-> <<"d", "e", "t", "a", "i", "l", "e", "d">>] >>

\* for keyword, value in table.items(): if keyword in prompt: ...
\* The index of the first entry, in table order, whose keyword occurs; else 0.
RECURSIVE FirstKeyword(_, _, _)
FirstKeyword(table, prompt, k) ==
    IF k > Len(table) THEN 0
    ELSE IF Contains(table[k].keyword, prompt) THEN k
    ELSE FirstKeyword(table, prompt, k + 1)

(***************************************************************************)
(* The extractors                                                          *)
(***************************************************************************)

extract_role(prompt) ==
    LET k == FirstKeyword(role_keywords, prompt, 1)
    IN IF k # 0 THEN <<"U4F60", "U662F", "U4E00", "U4F4D">> \o role_keywords[k].keyword
       ELSE <<"U4F60", "U662F", "U4E00", "U4F4D", "A", "I", "U52A9", "U624B">>

\* The loop of _extract_task from pattern k on, then the fallback.
RECURSIVE extract_task_from(_, _)
extract_task_from(prompt, k) ==
    IF k > Len(task_patterns)
    THEN IF Contains(<<PERIOD>>, prompt)
         THEN SubSeq(prompt, 1, Find(prompt, <<PERIOD>>, 1) - 1)
         ELSE prompt
    ELSE LET m == re_search(task_patterns[k], prompt, 1)
         IN IF m.found THEN strip(group1(prompt, m))
            ELSE extract_task_from(prompt, k + 1)

extract_task(prompt) == extract_task_from(prompt, 1)

\* 背景, 情况, 场景, 环境
context_indicators == << <<"U80CC", "U666F">>, <<"U60C5", "U51B5">>, <<"U573A", "U666F">>, <<"U73AF", "U5883">> >>

\* _extract_context returning "" as soon as an indicator has no 。 after it.
RECURSIVE extract_context_first_present(_, _)
extract_context_first_present(prompt, k) ==
    IF k > Len(context_indicators) THEN <<>>
    ELSE IF Contains(context_indicators[k], prompt)
         THEN LET start == Find(prompt, context_indicators[k], 1)
                  end == Find(prompt, <<PERIOD>>, start)
              IN IF end # 0 THEN SubSeq(prompt, start, end) ELSE <<>>
    ELSE extract_context_first_present(prompt, k + 1)

\* The loop of _extract_context from indicator k on.
RECURSIVE extract_context_from(_, _)
extract_context_from(prompt, k) ==
    IF k > Len(context_indicators) THEN <<>>
    ELSE IF Contains(context_indicators[k], prompt)
         THEN LET start == Find(prompt, context_indicators[k], 1)
                  end == Find(prompt, <<PERIOD>>, start)
              IN IF end # 0 THEN SubSeq(prompt, start, end)
                 ELSE extract_context_from(prompt, k + 1)
    ELSE extract_context_from(prompt, k + 1)

extract_context(prompt) == extract_context_from(prompt, 1)

\* 要求：, 需要, 必须
requirement_patterns == << <<"U8981", "U6C42", "UFF1A">>, <<"U9700", "U8981">>, <<"U5FC5", "U987B">> >>

\* 生成高质量的回答
default_requirement == <<"U751F", "U6210", "U9AD8", "U8D28", "U91CF", "U7684", "U56DE", "U7B54">>

strip_all(matches) == [i \in 1..Len(matches) |-> strip(matches[i])]

\* The loop of _extract_requirements from pattern k on.
RECURSIVE requirements_from(_, _)
requirements_from(prompt, k) ==
    IF k > Len(requirement_patterns) THEN <<>>
    ELSE strip_all(re_findall(requirement_patterns[k], prompt, 1))
         \o requirements_from(prompt, k + 1)

\* _extract_requirements returning the collected list as it is.
extract_requirements_without_default(prompt) == requirements_from(prompt, 1)

extract_requirements(prompt) ==
    LET requirements == requirements_from(prompt, 1)
    IN IF requirements # <<>> THEN requirements
       ELSE <<default_requirement>>

extract_format(prompt) ==
    LET k == FirstKeyword(format_keywords, prompt, 1)
    IN IF k # 0 THEN format_keywords[k].value ELSE <<"p", "a", "r", "a", "g", "r", "a", "p", "h">>

extract_tone(prompt) ==
    LET k == FirstKeyword(tone_keywords, prompt, 1)
    IN IF k # 0 THEN tone_keywords[k].value ELSE <<"p", "r", "o", "f", "e", "s", "s", "i", "o", "n", "a", "l">>

\* PromptType
CREATIVE == <<"c", "r", "e", "a", "t", "i", "v", "e">>
ANALYTICAL == <<"a", "n", "a", "l", "y", "t", "i", "c", "a", "l">>
CONVERSATIONAL == <<"c", "o", "n", "v", "e", "r", "s", "a", "t", "i", "o", "n", "a", "l">>
INSTRUCTIONAL == <<"i", "n", "s", "t", "r", "u", "c", "t", "i", "o", "n", "a", "l">>

creative_keywords == << <<"U521B", "U4F5C">>, <<"U60F3", "U8C61">>, <<"U521B", "U610F">>, <<"U6545", "U4E8B">> >>
analytical_keywords == << <<"U5206", "U6790">>, <<"U8BC4", "U4F30">>, <<"U6BD4", "U8F83">>, <<"U7814", "U7A76">> >>
instructional_keywords == << <<"U6559">>, <<"U89E3", "U91CA">>, <<"U6307", "U5BFC">>, <<"U6B65", "U9AA4">> >>

\* any(keyword in prompt for keyword in keywords)
any_in(keywords, prompt) ==
    \E k \in 1..Len(keywords) : Contains(keywords[k], prompt)

\* The classifier testing the analytical keywords before the creative ones.
classify_analytical_first(prompt) ==
    IF any_in(analytical_keywords, prompt) THEN ANALYTICAL
    ELSE IF any_in(creative_keywords, prompt) THEN CREATIVE
    ELSE IF any_in(instructional_keywords, prompt) THEN INSTRUCTIONAL
    ELSE CONVERSATIONAL

classify_prompt_type(prompt) ==
    IF any_in(creative_keywords, prompt) THEN CREATIVE
    ELSE IF any_in(analytical_keywords, prompt) THEN ANALYTICAL
    ELSE IF any_in(instructional_keywords, prompt) THEN INSTRUCTIONAL
    ELSE CONVERSATIONAL

analyze_natural_prompt(prompt) ==
    [role |-> extract_role(prompt),
     task |-> extract_task(prompt),
     context |-> extract_context(prompt),
     requirements |-> extract_requirements(prompt),
     format |-> extract_format(prompt),
     tone |-> extract_tone(prompt),
     prompt_type |-> classify_prompt_type(prompt)]

(***************************************************************************)
(* optimize_prompt                                                         *)
(***************************************************************************)

generate_examples(prompt_type) ==
    IF prompt_type = CREATIVE
    THEN << <<"U793A", "U4F8B", "UFF1A", "U521B", "U4F5C", "U4E00", "U4E2A", "U5173", "U4E8E", "U672A", "U6765", "U79D1", "U6280", "U7684", "U77ED", "U6545", "U4E8B">> >>
    ELSE IF prompt_type = ANALYTICAL
    THEN << <<"U793A", "U4F8B", "UFF1A", "U5206", "U6790", "U8BE5", "U7B56", "U7565", "U7684", "U4F18", "U7F3A", "U70B9">> >>
    ELSE IF prompt_type = INSTRUCTIONAL
    THEN << <<"U793A", "U4F8B", "UFF1A", "U6B65", "U9AA4", "1", ":", " ", "U51C6", "U5907", "U6750", "U6599", ";", " ", "U6B65", "U9AA4", "2", ":", " ", "U5F00", "U59CB", "U64CD", "U4F5C">> >>
    ELSE IF prompt_type = CONVERSATIONAL
    THEN << <<"U793A", "U4F8B", "UFF1A", "U7528", "U6237", "U53CB", "U597D", "U7684", "U5BF9", "U8BDD", "U65B9", "U5F0F", "U56DE", "U7B54">> >>
    ELSE << <<"U63D0", "U4F9B", "U76F8", "U5173", "U793A", "U4F8B">> >>

generate_constraints(prompt_type) ==
    IF prompt_type = CREATIVE
    THEN << <<"U4FDD", "U6301", "U5185", "U5BB9", "U79EF", "U6781", "U5411", "U4E0A">>, <<"U907F", "U514D", "U654F", "U611F", "U8BDD", "U9898">> >>
    ELSE IF prompt_type = ANALYTICAL
    THEN << <<"U57FA", "U4E8E", "U4E8B", "U5B9E", "U548C", "U6570", "U636E">>, <<"U4FDD", "U6301", "U5BA2", "U89C2", "U6027">> >>
    ELSE IF prompt_type = INSTRUCTIONAL
    THEN << <<"U6B65", "U9AA4", "U6E05", "U6670", "U660E", "U786E">>, <<"U6613", "U4E8E", "U7406", "U89E3", "U548C", "U6267", "U884C">> >>
    ELSE IF prompt_type = CONVERSATIONAL
    THEN << <<"U8BED", "U8A00", "U81EA", "U7136", "U6D41", "U7545">>, <<"U56DE", "U7B54", "U7B80", "U6D01", "U660E", "U4E86">> >>
    ELSE << <<"U9075", "U5FAA", "U57FA", "U672C", "U539F", "U5219">>, <<"U786E", "U4FDD", "U5185", "U5BB9", "U51C6", "U786E">> >>

\* 用户需要专业的帮助
default_context == <<"U7528", "U6237", "U9700", "U8981", "U4E13", "U4E1A", "U7684", "U5E2E", "U52A9">>

\* PromptStructure with the context taken as analysed, no default put in.
PromptStructure_without_context_default(a) ==
    [role |-> a.role,
     task |-> a.task,
     context |-> a.context,
     requirements |-> a.requirements,
     format |-> a.format,
     examples |-> generate_examples(a.prompt_type),
     constraints |-> generate_constraints(a.prompt_type),
     tone |-> a.tone,
     prompt_type |-> a.prompt_type]

\* PromptStructure(role=analysis["role"], ...)
PromptStructure(a) ==
    [role |-> a.role,
     task |-> a.task,
     context |-> IF a.context # <<>> THEN a.context ELSE default_context,
     requirements |-> a.requirements,
     format |-> a.format,
     examples |-> generate_examples(a.prompt_type),
     constraints |-> generate_constraints(a.prompt_type),
     tone |-> a.tone,
     prompt_type |-> a.prompt_type]

StrItem(k, v) == [key |-> k, is_list |-> FALSE, str |-> v, list |-> <<>>]
ListItem(k, v) == [key |-> k, is_list |-> TRUE, str |-> <<>>, list |-> v]

\* dataclasses.asdict: the fields in declaration order.
asdict(p) == <<
    StrItem(<<"r", "o", "l", "e">>, p.role),
    StrItem(<<"t", "a", "s", "k">>, p.task),
    StrItem(<<"c", "o", "n", "t", "e", "x", "t">>, p.context),
    ListItem(<<"r", "e", "q", "u", "i", "r", "e", "m", "e", "n", "t", "s">>, p.requirements),
    StrItem(<<"f", "o", "r", "m", "a", "t">>, p.format),
    ListItem(<<"e", "x", "a", "m", "p", "l", "e", "s">>, p.examples),
    ListItem(<<"c", "o", "n", "s", "t", "r", "a", "i", "n", "t", "s">>, p.constraints),
    StrItem(<<"t", "o", "n", "e">>, p.tone),
    StrItem(<<"p", "r", "o", "m", "p", "t", "_", "t", "y", "p", "e">>, p.prompt_type) >>

RECURSIVE Flatten(_, _)
Flatten(seqs, k) ==
    IF k > Len(seqs) THEN <<>> ELSE seqs[k] \o Flatten(seqs, k + 1)

\* An encoder that escapes the quote and the newline but not the backslash.
encode_char_backslash_unescaped(c) ==
    IF c = QUOTE THEN <<BSLASH, QUOTE>>
    ELSE IF c = LF THEN <<BSLASH, "n">>
    ELSE <<c>>

\* json.dumps(..., ensure_ascii=False): a character of a string as written
\* between the quotes.  Only ", \ and control characters are escaped.
encode_char(c) ==
    IF c = QUOTE THEN <<BSLASH, QUOTE>>
    ELSE IF c = BSLASH THEN <<BSLASH, BSLASH>>
    ELSE IF c = LF THEN <<BSLASH, "n">>
    ELSE <<c>>

encode_basestring(s) ==
    <<QUOTE>> \o Flatten([i \in 1..Len(s) |-> encode_char(s[i])], 1) \o <<QUOTE>>

\* indent=2: a newline and two spaces for each level of nesting.
newline_indent(level) == <<LF>> \o [i \in 1..(2 * level) |-> " "]

dump_list(l, level) ==
    IF l = <<>> THEN <<"[", "]">>
    ELSE <<"[">>
         \o Flatten([i \in 1..Len(l) |->
                newline_indent(level + 1) \o encode_basestring(l[i])
                \o (IF i < Len(l) THEN <<",">> ELSE <<>>)], 1)
         \o newline_indent(level) \o <<"]">>

dump_dict(items) ==
    IF items = <<>> THEN <<"{", "}">>
    ELSE <<"{">>
         \o Flatten([i \in 1..Len(items) |->
                newline_indent(1) \o encode_basestring(items[i].key)
                \o <<":", " ">>
                \o (IF items[i].is_list THEN dump_list(items[i].list, 1)
                    ELSE encode_basestring(items[i].str))
                \o (IF i < Len(items) THEN <<",">> ELSE <<>>)], 1)
         \o newline_indent(0) \o <<"}">>

optimize_prompt(natural_prompt) ==
    dump_dict(asdict(PromptStructure(analyze_natural_prompt(natural_prompt))))


(***************************************************************************)
(* Reading the serialized record back (json.loads, then PromptStructure    *)
(* from the parsed mapping).  Every result carries ok: FALSE stands for    *)
(* the JSONDecodeError / TypeError of a text that is not such a record.    *)
(***************************************************************************)

JsonWhitespace == {" ", LF}

RECURSIVE skip_ws(_, _)
skip_ws(t, i) ==
    IF i <= Len(t) /\ t[i] \in JsonWhitespace THEN skip_ws(t, i + 1) ELSE i

decode_escape(c) == IF c = "n" THEN LF ELSE c

\* The characters of a string from position i (just after the opening
\* quote) up to the closing quote.
RECURSIVE scanstring(_, _, _)
scanstring(t, i, acc) ==
    IF i > Len(t) THEN [ok |-> FALSE, val |-> acc, next |-> i]
    ELSE IF t[i] = QUOTE THEN [ok |-> TRUE, val |-> acc, next |-> i + 1]
    ELSE IF t[i] = BSLASH
         THEN IF i + 1 > Len(t) \/ t[i + 1] \notin {QUOTE, BSLASH, "n", "/"}
              THEN [ok |-> FALSE, val |-> acc, next |-> i]
              ELSE scanstring(t, i + 2, Append(acc, decode_escape(t[i + 1])))
    ELSE IF t[i] = LF THEN [ok |-> FALSE, val |-> acc, next |-> i]
    ELSE scanstring(t, i + 1, Append(acc, t[i]))

parse_string(t, i) ==
    IF i <= Len(t) /\ t[i] = QUOTE THEN scanstring(t, i + 1, <<>>)
    ELSE [ok |-> FALSE, val |-> <<>>, next |-> i]

\* The elements of an array from position i (an element is expected there).
RECURSIVE parse_elements(_, _, _)
parse_elements(t, i, acc) ==
    LET e == parse_string(t, i)
        j == skip_ws(t, e.next)
    IN IF ~e.ok \/ j > Len(t) THEN [ok |-> FALSE, val |-> acc, next |-> j]
       ELSE IF t[j] = "]"
            THEN [ok |-> TRUE, val |-> Append(acc, e.val), next |-> j + 1]
       ELSE IF t[j] = ","
            THEN parse_elements(t, skip_ws(t, j + 1), Append(acc, e.val))
       ELSE [ok |-> FALSE, val |-> acc, next |-> j]

parse_array(t, i) ==
    LET j == skip_ws(t, i + 1)
    IN IF j <= Len(t) /\ t[j] = "]"
       THEN [ok |-> TRUE, val |-> <<>>, next |-> j + 1]
       ELSE parse_elements(t, j, <<>>)

\* The members of an object from position i (a key is expected there).
RECURSIVE parse_members(_, _, _)
parse_members(t, i, acc) ==
    LET k == parse_string(t, i)
        c == skip_ws(t, k.next)
        v == skip_ws(t, c + 1)
        isl == v <= Len(t) /\ t[v] = "["
        val == IF isl THEN parse_array(t, v) ELSE parse_string(t, v)
        item == IF isl THEN ListItem(k.val, val.val) ELSE StrItem(k.val, val.val)
        j == skip_ws(t, val.next)
    IN IF ~k.ok \/ c > Len(t) \/ t[c] # ":" THEN [ok |-> FALSE, val |-> acc, next |-> c]
       ELSE IF ~val.ok \/ j > Len(t) THEN [ok |-> FALSE, val |-> acc, next |-> j]
       ELSE IF t[j] = "}"
            THEN [ok |-> TRUE, val |-> Append(acc, item), next |-> j + 1]
       ELSE IF t[j] = ","
            THEN parse_members(t, skip_ws(t, j + 1), Append(acc, item))
       ELSE [ok |-> FALSE, val |-> acc, next |-> j]

\* json.loads of a text holding an object of strings and lists of strings:
\* the members in the order read.
json_loads(t) ==
    LET i == skip_ws(t, 1)
        j == IF i <= Len(t) THEN skip_ws(t, i + 1) ELSE i
        m == IF j <= Len(t) /\ t[j] = "}"
             THEN [ok |-> TRUE, val |-> <<>>, next |-> j + 1]
             ELSE parse_members(t, j, <<>>)
    IN IF i > Len(t) \/ t[i] # "{" THEN [ok |-> FALSE, val |-> <<>>]
       ELSE [ok |-> m.ok /\ skip_ws(t, m.next) = Len(t) + 1, val |-> m.val]

FieldNames == << <<"r", "o", "l", "e">>, <<"t", "a", "s", "k">>, <<"c", "o", "n", "t", "e", "x", "t">>, <<"r", "e", "q", "u", "i", "r", "e", "m", "e", "n", "t", "s">>, <<"f", "o", "r", "m", "a", "t">>,
                 <<"e", "x", "a", "m", "p", "l", "e", "s">>, <<"c", "o", "n", "s", "t", "r", "a", "i", "n", "t", "s">>, <<"t", "o", "n", "e">>, <<"p", "r", "o", "m", "p", "t", "_", "t", "y", "p", "e">> >>

ListFields == { <<"r", "e", "q", "u", "i", "r", "e", "m", "e", "n", "t", "s">>, <<"e", "x", "a", "m", "p", "l", "e", "s">>, <<"c", "o", "n", "s", "t", "r", "a", "i", "n", "t", "s">> }

\* The record a serialized text is read back as: the text parses, its keys
\* are exactly the nine fields in declaration order, each of the right kind.
ParsedRecord(t) ==
    LET d == json_loads(t)
        shaped == /\ d.ok
                  /\ Len(d.val) = Len(FieldNames)
                  /\ \A i \in 1..Len(FieldNames) :
                        /\ d.val[i].key = FieldNames[i]
                        /\ d.val[i].is_list = (FieldNames[i] \in ListFields)
    IN IF ~shaped THEN [ok |-> FALSE]
       ELSE [ok |-> TRUE,
             role |-> d.val[1].str, task |-> d.val[2].str,
             context |-> d.val[3].str, requirements |-> d.val[4].list,
             format |-> d.val[5].str, examples |-> d.val[6].list,
             constraints |-> d.val[7].list, tone |-> d.val[8].str,
             prompt_type |-> d.val[9].str]


(***************************************************************************)
(* Inputs                                                                  *)
(***************************************************************************)

\* Every text made of at most n of the given pieces.
Strings(pieces, n) ==
    UNION { { Flatten(f, 1) : f \in [1..k -> pieces] } : k \in 0..n }

\* 帮我 请 需要 想要 ， 。 newline space a
TaskTokens == { <<"U5E2E", "U6211">>, <<"U8BF7">>, <<"U9700", "U8981">>, <<"U60F3", "U8981">>, <<COMMA>>, <<PERIOD>>, <<LF>>, <<" ">>, <<"a">> }

\* 要求： 需要 必须 ， a
ReqTokens == { <<"U8981", "U6C42", "UFF1A">>, <<"U9700", "U8981">>, <<"U5FC5", "U987B">>, <<COMMA>>, <<"a">> }

\* A requirement that is worded as the default one: 必须生成高质量的回答, ...
DefaultWorded ==
    { requirement_patterns[k] \o default_requirement : k \in 1..Len(requirement_patterns) }

\* 背景 情况 场景 环境 景 。 a
CtxTokens == { <<"U80CC", "U666F">>, <<"U60C5", "U51B5">>, <<"U573A", "U666F">>, <<"U73AF", "U5883">>, <<"U666F">>, <<PERIOD>>, <<"a">> }

\* 创作 分析 教 专家 师 报告 a
KeywordTokens == { <<"U521B", "U4F5C">>, <<"U5206", "U6790">>, <<"U6559">>, <<"U4E13", "U5BB6">>, <<"U5E08">>, <<"U62A5", "U544A">>, <<"a">> }

\* " \ newline n 必须 背景 。
JsonTokens == { <<QUOTE>>, <<BSLASH>>, <<LF>>, <<"n">>, <<"U5FC5", "U987B">>, <<"U80CC", "U666F">>, <<PERIOD>> }

\* main: natural_prompt
natural_prompt == <<"U8BF7", "U5E2E", "U6211", "U5199", "U4E00", "U4E2A", "U5173", "U4E8E", "U4EBA", "U5DE5", "U667A", "U80FD", "U53D1", "U5C55", "U7684", "U4E13", "U4E1A", "U5206", "U6790", "U62A5", "U544A", "UFF0C", "U8981", "U6C42", "U8BE6", "U7EC6", "U5206", "U6790", "U73B0", "U72B6", "U548C", "U8D8B", "U52BF">>

\* The arguments a caller of the library passes.
Inputs ==
    Strings(TaskTokens, MaxTaskTokens) \cup Strings(ReqTokens, MaxReqTokens)
    \cup Strings(CtxTokens, MaxCtxTokens)
    \cup Strings(KeywordTokens, MaxKeywordTokens)
    \cup Strings(JsonTokens, MaxJsonTokens) \cup DefaultWorded
    \cup {natural_prompt}

\* quit in every letter case.
QuitSpellings ==
    { <<a, b, c, d>> : a \in {"q", "Q"}, b \in {"u", "U"}, c \in {"i", "I"}, d \in {"t", "T"} }

\* Spaces typed before or after the word.
Pads == Strings({ <<" ">> }, MaxPad)

\* Other lines a user types: the empty line, near misses of quit, prompts.
\* 帮我写报告，必须详细   背景是a。请分析   帮我，
OtherLines == { <<>>, <<"q", "u", "i">>, <<"q", "u", "i", "t", "t">>, <<"q", " ", "u", "i", "t">>, <<"Q", "U", "I", "T", "!">>,
                <<"U5E2E", "U6211", "U5199", "U62A5", "U544A", "UFF0C", "U5FC5", "U987B", "U8BE6", "U7EC6">>, <<"U80CC", "U666F", "U662F", "a", "U3002", "U8BF7", "U5206", "U6790">>, <<"U5E2E", "U6211", "UFF0C">> }

\* The lines input() returns: a line holds no newline.
Lines ==
    QuitSpellings
    \cup { l \o w \o r : l \in Pads, w \in { <<"q", "u", "i", "t">>, <<"Q", "U", "I", "T">> }, r \in Pads }
    \cup OtherLines

(***************************************************************************)
(* str.lower()                                                             *)
(***************************************************************************)

UpperCase == <<"A", "B", "C", "D", "E", "F", "G", "H", "I", "J", "K", "L", "M", "N", "O", "P", "Q", "R", "S", "T", "U", "V", "W", "X", "Y", "Z">>
LowerCase == <<"a", "b", "c", "d", "e", "f", "g", "h", "i", "j", "k", "l", "m", "n", "o", "p", "q", "r", "s", "t", "u", "v", "w", "x", "y", "z">>

lower_char(c) ==
    IF \E k \in 1..Len(UpperCase) : UpperCase[k] = c
    THEN LowerCase[CHOOSE k \in 1..Len(UpperCase) : UpperCase[k] = c]
    ELSE c

\* A comparison that leaves the case of the line as typed.
lower_unchanged(s) == s

lower(s) == [i \in 1..Len(s) |-> lower_char(s[i])]

(***************************************************************************)
(* The optimizer called as a library                                       *)
(***************************************************************************)

LibInit ==
    /\ pc = "lib"
    /\ user_input \in Inputs
    /\ arg = <<>>
    /\ optimized_json = <<>>
    /\ analysis = <<>>
    /\ optimized_prompt = <<>>
    /\ result = <<>>
    /\ calls = 0
    /\ raised = "none"
    /\ stdout = "nothing"

\* optimizer.analyze_natural_prompt(natural_prompt)
CallAnalyze ==
    /\ pc = "lib"
    /\ analysis = <<>>
    /\ analysis' = <<analyze_natural_prompt(user_input)>>
    /\ UNCHANGED <<pc, optimized_json, user_input, arg, optimized_prompt, result,
                   calls, raised, stdout>>

\* optimizer.optimize_prompt(natural_prompt)
CallOptimize ==
    /\ pc = "lib"
    /\ result = <<>>
    /\ arg' = user_input
    /\ analysis' = <<analyze_natural_prompt(user_input)>>
    /\ optimized_prompt' = <<PromptStructure(analyze_natural_prompt(user_input))>>
    /\ result' = <<optimize_prompt(user_input)>>
    /\ calls' = calls + 1
    /\ UNCHANGED <<pc, optimized_json, user_input, raised, stdout>>

LibNext == CallAnalyze \/ CallOptimize

LibSpec == LibInit /\ [][LibNext]_vars

(***************************************************************************)
(* main()                                                                  *)
(***************************************************************************)

\* What input() can raise, what a call or a print inside try can raise.
InputErrors == {"EOFError", "KeyboardInterrupt"}
CallErrors == {"MemoryError", "KeyboardInterrupt"}
PrintErrors == {"OSError", "KeyboardInterrupt"}

\* A handler written as  except ValueError.
except_ValueError(e) == e \in {"ValueError"}

\* except Exception as e: KeyboardInterrupt derives from BaseException only.
except_Exception(e) == e \in {"EOFError", "MemoryError", "OSError"}

Init ==
    /\ pc = "demo"
    /\ user_input = <<>>
    /\ arg = <<>>
    /\ optimized_json = <<>>
    /\ analysis = <<>>
    /\ optimized_prompt = <<>>
    /\ result = <<>>
    /\ calls = 0
    /\ raised = "none"
    /\ stdout = "nothing"

\* The demonstration: optimize natural_prompt and print it.
RunDemo ==
    /\ pc = "demo"
    /\ arg' = natural_prompt
    /\ analysis' = <<analyze_natural_prompt(natural_prompt)>>
    /\ optimized_prompt' = <<PromptStructure(analyze_natural_prompt(natural_prompt))>>
    /\ optimized_json' = <<optimize_prompt(natural_prompt)>>
    /\ stdout' = "demo"
    /\ pc' = "input"
    /\ UNCHANGED <<user_input, result, calls, raised>>

\* user_input = input(...); if user_input.lower() == 'quit': break
ReadInput ==
    /\ pc = "input"
    /\ \E line \in Lines :
        /\ user_input' = line
        /\ pc' = IF lower(line) = <<"q", "u", "i", "t">> THEN "exit" ELSE "try"
    /\ calls' = 0
    /\ raised' = "none"
    /\ UNCHANGED <<optimized_json, arg, analysis, optimized_prompt, result, stdout>>

\* input(...) raises: the call is outside the try statement.
ReadInputRaises ==
    /\ pc = "input"
    /\ \E e \in InputErrors : raised' = e
    /\ pc' = "crashed"
    /\ UNCHANGED <<optimized_json, user_input, arg, analysis, optimized_prompt,
                   result, calls, stdout>>

\* Where an exception raised inside the try statement goes.
try_raise(e) == IF except_Exception(e) THEN "except" ELSE "crashed"

\* result = optimizer.optimize_prompt(user_input)
Optimize ==
    /\ pc = "try"
    /\ arg' = user_input
    /\ analysis' = <<analyze_natural_prompt(user_input)>>
    /\ optimized_prompt' = <<PromptStructure(analyze_natural_prompt(user_input))>>
    /\ result' = <<optimize_prompt(user_input)>>
    /\ calls' = calls + 1
    /\ pc' = "print"
    /\ UNCHANGED <<optimized_json, user_input, raised, stdout>>

OptimizeRaises ==
    /\ pc = "try"
    /\ \E e \in CallErrors : raised' = e /\ pc' = try_raise(e)
    /\ arg' = user_input
    /\ calls' = calls + 1
    /\ UNCHANGED <<optimized_json, user_input, analysis, optimized_prompt,
                   result, stdout>>

\* print("\n优化结果："); print(result)
PrintResult ==
    /\ pc = "print"
    /\ stdout' = "result"
    /\ pc' = "input"
    /\ UNCHANGED <<optimized_json, user_input, arg, analysis, optimized_prompt,
                   result, calls, raised>>

PrintResultRaises ==
    /\ pc = "print"
    /\ \E e \in PrintErrors : raised' = e /\ pc' = try_raise(e)
    /\ UNCHANGED <<optimized_json, user_input, arg, analysis, optimized_prompt,
                   result, calls, stdout>>

\* except Exception as e: print(f"处理错误：{e}")
Report ==
    /\ pc = "except"
    /\ stdout' = "error"
    /\ pc' = "input"
    /\ UNCHANGED <<optimized_json, user_input, arg, analysis, optimized_prompt,
                   result, calls, raised>>

\* The print of the handler raises: nothing encloses it.
ReportRaises ==
    /\ pc = "except"
    /\ \E e \in PrintErrors : raised' = e
    /\ pc' = "crashed"
    /\ UNCHANGED <<optimized_json, user_input, arg, analysis, optimized_prompt,
                   result, calls, stdout>>

Next ==
    \/ RunDemo
    \/ ReadInput
    \/ ReadInputRaises
    \/ Optimize
    \/ OptimizeRaises
    \/ PrintResult
    \/ PrintResultRaises
    \/ Report
    \/ ReportRaises

Spec == Init /\ [][Next]_vars

(***************************************************************************)
(* What the properties speak of, stated directly on the text               *)
(***************************************************************************)

Least(S) == CHOOSE x \in S : \A y \in S : x <= y

Occurs(kw, s) == \E i \in 1..Len(s) : HasAt(s, i, kw)

FirstOccurrence(kw, s) ==
    CHOOSE i \in 1..Len(s) :
        HasAt(s, i, kw) /\ \A j \in 1..(i - 1) : ~HasAt(s, j, kw)

IsSpace(c) == c \in {" ", LF}

AllSpace(x) == \A k \in 1..Len(x) : IsSpace(x[k])

\* x without the whitespace at its two ends.
Trimmed(x) ==
    LET cuts == { c \in (0..Len(x)) \X (0..Len(x)) :
                    /\ c[1] + c[2] <= Len(x)
                    /\ \A k \in 1..c[1] : IsSpace(x[k])
                    /\ \A k \in (Len(x) - c[2] + 1)..Len(x) : IsSpace(x[k])
                    /\ c[1] + c[2] < Len(x) =>
                          ~IsSpace(x[c[1] + 1]) /\ ~IsSpace(x[Len(x) - c[2]]) }
        cut == CHOOSE c \in cuts : TRUE
    IN SubSeq(x, cut[1] + 1, Len(x) - cut[2])

\* A terminator of a pattern stands at j: ， or 。, the end of the text, or
\* the newline that ends the text.
Terminated(s, j) ==
    \/ j = Len(s) + 1
    \/ j <= Len(s) /\ s[j] \in {COMMA, PERIOD}
    \/ j = Len(s) /\ s[j] = LF

\* Where a match of lead(.*?)(?:，|。|$) that starts at i can stop: at a
\* terminator with no newline between the lead-in and it.
Stops(lead, s, i) ==
    { j \in (i + Len(lead))..(Len(s) + 1) :
        Terminated(s, j) /\ \A k \in (i + Len(lead))..(j - 1) : s[k] # LF }

MatchStarts(lead, s) ==
    { i \in 1..Len(s) : HasAt(s, i, lead) /\ Stops(lead, s, i) # {} }

PatternMatches(lead, s) == MatchStarts(lead, s) # {}

\* The text between the lead-in at i and the first terminator after it.
CaptureAt(lead, s, i) ==
    SubSeq(s, i + Len(lead), Least(Stops(lead, s, i)) - 1)

\* The capture of the leftmost match.
SearchCapture(lead, s) == CaptureAt(lead, s, Least(MatchStarts(lead, s)))

\* The matches a left-to-right scan reports: those that do not start inside
\* an earlier match.
Selected(lead, s) ==
    { i \in MatchStarts(lead, s) :
        \A h \in MatchStarts(lead, s) : h < i => Least(Stops(lead, s, h)) < i }

InOrder(S) ==
    CHOOSE f \in [1..Cardinality(S) -> S] :
        \A a, b \in 1..Cardinality(S) : a < b => f[a] < f[b]

AllCaptures(lead, s) ==
    LET o == InOrder(Selected(lead, s))
    IN [k \in 1..Cardinality(Selected(lead, s)) |->
            Trimmed(CaptureAt(lead, s, o[k]))]

\* 帮我, 请, 需要, 想要
TaskLeadIns == << <<"U5E2E", "U6211">>, <<"U8BF7">>, <<"U9700", "U8981">>, <<"U60F3", "U8981">> >>

MatchingTaskPatterns(s) ==
    { k \in 1..Len(TaskLeadIns) : PatternMatches(TaskLeadIns[k], s) }

BeforeFirstPeriod(s) ==
    IF Occurs(<<PERIOD>>, s)
    THEN SubSeq(s, 1, FirstOccurrence(<<PERIOD>>, s) - 1)
    ELSE s

\* The capture of the first pattern, in declaration order, that matches.
FirstPatternCapture(s) ==
    SearchCapture(TaskLeadIns[Least(MatchingTaskPatterns(s))], s)

(***************************************************************************)
(* C1                                                                      *)
(***************************************************************************)

\* The inputs whose task comes out empty: the capture of the first matching
\* pattern is empty or blank, or no pattern matches and nothing precedes
\* the first 。 (the empty input, or an input that begins with 。).
EmptyTaskCase(s) ==
    IF MatchingTaskPatterns(s) # {} THEN AllSpace(FirstPatternCapture(s))
    ELSE s = <<>> \/ s[1] = PERIOD

\* C1 as stated: for every input, role, task, context, format, tone and
\* prompt_type of the record optimize_prompt builds are all non-empty.
C1_AllScalarFieldsNonEmpty ==
    optimized_prompt # <<>> =>
        LET p == optimized_prompt[1]
        IN /\ p.role # <<>>
           /\ p.task # <<>>
           /\ p.context # <<>>
           /\ p.format # <<>>
           /\ p.tone # <<>>
           /\ p.prompt_type # <<>>

\* C1 amended: for every input, role, context, format, tone and prompt_type
\* of the record optimize_prompt builds are non-empty; task is empty exactly
\* when the first matching pattern captures nothing but whitespace, or no
\* pattern matches and nothing precedes the first 。.
C1_ScalarFieldsExceptTask ==
    optimized_prompt # <<>> =>
        LET p == optimized_prompt[1]
        IN /\ p.role # <<>>
           /\ p.context # <<>>
           /\ p.format # <<>>
           /\ p.tone # <<>>
           /\ p.prompt_type # <<>>
           /\ (p.task = <<>>) <=> EmptyTaskCase(arg)

\* A pattern matched a non-empty input with an empty capture, and the
\* record was built with an empty task and the default context.
C1_Witness ==
    /\ optimized_prompt # <<>>
    /\ arg # <<>>
    /\ PatternMatches(<<"U5E2E", "U6211">>, arg)
    /\ optimized_prompt[1].task = <<>>
    /\ optimized_prompt[1].context = default_context

(***************************************************************************)
(* C2                                                                      *)
(***************************************************************************)

\* C2: for every input, the empty one included, the record optimize_prompt
\* builds has non-empty requirements, examples and constraints lists.
C2_ListsNeverEmpty ==
    optimized_prompt # <<>> =>
        /\ Len(optimized_prompt[1].requirements) >= 1
        /\ Len(optimized_prompt[1].examples) >= 1
        /\ Len(optimized_prompt[1].constraints) >= 1

\* The record for the empty input has been built.
C2_Witness ==
    /\ optimized_prompt # <<>>
    /\ arg = <<>>
    /\ optimized_prompt[1].requirements = <<default_requirement>>

(***************************************************************************)
(* C3                                                                      *)
(***************************************************************************)

\* 背景, 情况, 场景, 环境
Indicators == << <<"U80CC", "U666F">>, <<"U60C5", "U51B5">>, <<"U573A", "U666F">>, <<"U73AF", "U5883">> >>

PresentIndicators(s) == { k \in 1..Len(Indicators) : Occurs(Indicators[k], s) }

PeriodsFrom(s, i) == { j \in i..Len(s) : s[j] = PERIOD }

\* The indicators whose first occurrence has a 。 after it.
UsableIndicators(s) ==
    { k \in PresentIndicators(s) :
        PeriodsFrom(s, FirstOccurrence(Indicators[k], s)) # {} }

\* From the first occurrence of indicator k through the next 。.
ContextOf(s, k) ==
    LET start == FirstOccurrence(Indicators[k], s)
    IN SubSeq(s, start, Least(PeriodsFrom(s, start)))

\* C3 as stated: the first indicator in table order that occurs decides: the
\* text from it through the next 。, or the empty string when no 。 follows
\* it, without going on to a later indicator.
C3_FirstPresentIndicatorDecides ==
    analysis # <<>> =>
        analysis[1].context =
            IF PresentIndicators(user_input) = {} THEN <<>>
            ELSE IF Least(PresentIndicators(user_input)) \in UsableIndicators(user_input)
                 THEN ContextOf(user_input, Least(PresentIndicators(user_input)))
                 ELSE <<>>

\* C3 amended: the first indicator in table order that occurs and whose first
\* occurrence is followed by a 。 decides: the result is the text from that
\* occurrence through the 。; an indicator with no 。 after it is passed
\* over for the later ones; with no such indicator the result is empty.
C3_FirstUsableIndicatorDecides ==
    analysis # <<>> =>
        analysis[1].context =
            IF UsableIndicators(user_input) = {} THEN <<>>
            ELSE ContextOf(user_input, Least(UsableIndicators(user_input)))

\* The first indicator that occurs has no 。 after it and a later one has.
C3_Witness ==
    /\ analysis # <<>>
    /\ UsableIndicators(user_input) # {}
    /\ Least(PresentIndicators(user_input)) \notin UsableIndicators(user_input)
    /\ analysis[1].context # <<>>

(***************************************************************************)
(* C4                                                                      *)
(***************************************************************************)

\* The fields of the serialized text read back, against the analysis; ctx is
\* the context the record is to hold.
ReadsBackAs(text, a, ctx) ==
    LET p == ParsedRecord(text)
    IN /\ p.ok
       /\ p.role = a.role
       /\ p.task = a.task
       /\ p.context = ctx
       /\ p.requirements = a.requirements
       /\ p.format = a.format
       /\ p.tone = a.tone
       /\ p.prompt_type = a.prompt_type
       /\ p.examples = generate_examples(a.prompt_type)
       /\ p.constraints = generate_constraints(a.prompt_type)

\* C4 as stated: the output of optimize_prompt parses back to exactly the
\* values of analyze_natural_prompt, context included, plus the examples and
\* constraints of the prompt type.
C4_RoundTripExact ==
    result # <<>> /\ analysis # <<>> =>
        ReadsBackAs(result[1], analysis[1], analysis[1].context)

\* C4 amended: the output of optimize_prompt parses back to the values of
\* analyze_natural_prompt for role, task, requirements, format, tone and
\* prompt_type, to the analysis context when that is non-empty and to
\* 用户需要专业的帮助 when it is empty, plus the examples and constraints of
\* the prompt type.
C4_RoundTripWithContextDefault ==
    result # <<>> /\ analysis # <<>> =>
        ReadsBackAs(result[1], analysis[1],
                    IF analysis[1].context = <<>> THEN default_context
                    ELSE analysis[1].context)

\* A text with a quote and a backslash in its task was serialized.
C4_Witness ==
    /\ result # <<>>
    /\ analysis # <<>>
    /\ \E i \in 1..Len(analysis[1].task) : analysis[1].task[i] = QUOTE
    /\ \E i \in 1..Len(analysis[1].task) : analysis[1].task[i] = BSLASH

(***************************************************************************)
(* C5                                                                      *)
(***************************************************************************)

\* C5 as stated: for the demonstration input the type is analytical, the
\* tone professional, the format report, and the task is the text between
\* 请 and the first terminator.
C5_DemoTaskAfterQing ==
    optimized_json # <<>> =>
        LET p == ParsedRecord(optimized_json[1])
        IN /\ p.ok
           /\ p.prompt_type = <<"a", "n", "a", "l", "y", "t", "i", "c", "a", "l">>
           /\ p.tone = <<"p", "r", "o", "f", "e", "s", "s", "i", "o", "n", "a", "l">>
           /\ p.format = <<"r", "e", "p", "o", "r", "t">>
           /\ p.task = Trimmed(SearchCapture(<<"U8BF7">>, natural_prompt))

\* C5 amended: for the demonstration input the type is analytical, the tone
\* professional, the format report, and the task is extracted by the 帮我
\* pattern, the first in declaration order: it is the text between 帮我 and
\* the first terminator, 写一个关于人工智能发展的专业分析报告.
C5_DemoTaskAfterBangWo ==
    optimized_json # <<>> =>
        LET p == ParsedRecord(optimized_json[1])
        IN /\ p.ok
           /\ p.prompt_type = <<"a", "n", "a", "l", "y", "t", "i", "c", "a", "l">>
           /\ p.tone = <<"p", "r", "o", "f", "e", "s", "s", "i", "o", "n", "a", "l">>
           /\ p.format = <<"r", "e", "p", "o", "r", "t">>
           /\ p.task = Trimmed(SearchCapture(<<"U5E2E", "U6211">>, natural_prompt))
           /\ p.task = <<"U5199", "U4E00", "U4E2A", "U5173", "U4E8E", "U4EBA", "U5DE5", "U667A", "U80FD", "U53D1", "U5C55", "U7684", "U4E13", "U4E1A", "U5206", "U6790", "U62A5", "U544A">>

\* The demonstration has run and the loop waits for its first line.
C5_Witness ==
    /\ pc = "input"
    /\ stdout = "demo"
    /\ optimized_json # <<>>
    /\ arg = natural_prompt

(***************************************************************************)
(* C6                                                                      *)
(***************************************************************************)

\* 创作 想象 创意 故事 / 分析 评估 比较 研究 / 教 解释 指导 步骤
CreativeWords == { <<"U521B", "U4F5C">>, <<"U60F3", "U8C61">>, <<"U521B", "U610F">>, <<"U6545", "U4E8B">> }
AnalyticalWords == { <<"U5206", "U6790">>, <<"U8BC4", "U4F30">>, <<"U6BD4", "U8F83">>, <<"U7814", "U7A76">> }
InstructionalWords == { <<"U6559">>, <<"U89E3", "U91CA">>, <<"U6307", "U5BFC">>, <<"U6B65", "U9AA4">> }

HasAny(words, s) == \E w \in words : Occurs(w, s)

\* C6: the type is creative whenever a creative keyword occurs, else
\* analytical whenever an analytical keyword occurs, else instructional
\* whenever an instructional keyword occurs, else conversational, wherever
\* the keywords stand in the text.
C6_ClassificationPriority ==
    analysis # <<>> =>
        LET t == analysis[1].prompt_type
        IN /\ HasAny(CreativeWords, user_input) => t = <<"c", "r", "e", "a", "t", "i", "v", "e">>
           /\ ~HasAny(CreativeWords, user_input)
              /\ HasAny(AnalyticalWords, user_input) => t = <<"a", "n", "a", "l", "y", "t", "i", "c", "a", "l">>
           /\ ~HasAny(CreativeWords, user_input)
              /\ ~HasAny(AnalyticalWords, user_input)
              /\ HasAny(InstructionalWords, user_input) => t = <<"i", "n", "s", "t", "r", "u", "c", "t", "i", "o", "n", "a", "l">>
           /\ ~HasAny(CreativeWords, user_input)
              /\ ~HasAny(AnalyticalWords, user_input)
              /\ ~HasAny(InstructionalWords, user_input) => t = <<"c", "o", "n", "v", "e", "r", "s", "a", "t", "i", "o", "n", "a", "l">>

\* An instructional and an analytical keyword stand before a creative one,
\* and the text was classified creative.
C6_Witness ==
    /\ analysis # <<>>
    /\ analysis[1].prompt_type = <<"c", "r", "e", "a", "t", "i", "v", "e">>
    /\ Occurs(<<"U6559">>, user_input)
    /\ Occurs(<<"U5206", "U6790">>, user_input)
    /\ Occurs(<<"U521B", "U4F5C">>, user_input)
    /\ FirstOccurrence(<<"U6559">>, user_input) < FirstOccurrence(<<"U5206", "U6790">>, user_input)
    /\ FirstOccurrence(<<"U5206", "U6790">>, user_input) < FirstOccurrence(<<"U521B", "U4F5C">>, user_input)

(***************************************************************************)
(* C7                                                                      *)
(***************************************************************************)

\* C7 as stated: no failure of an iteration ends the loop; the loop ends
\* only on a quit line.
C7_LoopEndsOnlyOnQuit ==
    pc \in {"exit", "crashed"} =>
        pc = "exit" /\ user_input \in QuitSpellings

\* C7 amended: an Exception raised inside the try statement, by
\* optimize_prompt or by printing the result, is caught; the handler prints
\* the error and the loop goes on to the next prompt.  What is raised
\* outside the try statement, by input() or by the handler's own print, and
\* a KeyboardInterrupt raised anywhere, is not caught and ends the loop;
\* otherwise the loop ends only on a quit line.
C7_TryFailuresCaught ==
    [][ /\ pc' = "crashed" =>
             pc \in {"input", "except"} \/ raised' = "KeyboardInterrupt"
        /\ pc \in {"try", "print"} /\ pc' \notin {"print", "input", "crashed"} =>
             pc' = "except" /\ raised' \in {"MemoryError", "OSError"}
        /\ pc = "except" /\ pc' # "crashed" =>
             pc' = "input" /\ stdout' = "error"
        /\ pc' = "exit" => pc = "input" /\ user_input' \in QuitSpellings
      ]_vars

\* A failure inside the try statement was caught and reported, and the loop
\* is at the next prompt.
C7_Witness ==
    /\ pc = "input"
    /\ stdout = "error"
    /\ raised \in {"MemoryError", "OSError"}

(***************************************************************************)
(* C8                                                                      *)
(***************************************************************************)

\* C8: a line that is quit in any letter case ends the loop with no call of
\* optimize_prompt on it; any other line is passed to optimize_prompt
\* exactly once before the next line is read.
C8_QuitOrOptimizeOnce ==
    /\ pc = "exit" => user_input \in QuitSpellings /\ calls = 0
    /\ pc = "try" => user_input \notin QuitSpellings /\ calls = 0
    /\ pc \in {"print", "except"} =>
          user_input \notin QuitSpellings /\ calls = 1 /\ arg = user_input
    /\ pc = "input" /\ stdout \in {"result", "error"} =>
          user_input \notin QuitSpellings /\ calls = 1 /\ arg = user_input

\* A mixed-case quit ended the loop after an earlier line was optimized.
C8_Witness ==
    /\ pc = "exit"
    /\ user_input = <<"Q", "u", "I", "t">>
    /\ stdout = "result"
    /\ arg \notin QuitSpellings
    /\ arg # natural_prompt

(***************************************************************************)
(* C9                                                                      *)
(***************************************************************************)

\* C9 as stated: the task is the trimmed capture of the first pattern, in
\* declaration order, that matches; the fallback (the text before the first
\* 。, or the whole input) is taken only when none of the four lead-in
\* phrases occurs.
C9_FallbackOnlyWithoutLeadIn ==
    analysis # <<>> =>
        IF \E k \in 1..Len(TaskLeadIns) : Occurs(TaskLeadIns[k], user_input)
        THEN /\ MatchingTaskPatterns(user_input) # {}
             /\ analysis[1].task = Trimmed(FirstPatternCapture(user_input))
        ELSE analysis[1].task = BeforeFirstPeriod(user_input)

\* C9 amended: the task is the trimmed capture of the first pattern, in
\* declaration order, that matches, even when a later-declared lead-in stands
\* earlier in the text; the fallback (the text before the first 。, or the
\* whole input) is taken only when none of the four patterns matches, that
\* is when no lead-in phrase is followed, with no newline in between, by ，,
\* 。 or the end of the input.
C9_FallbackOnlyWithoutMatch ==
    analysis # <<>> =>
        analysis[1].task =
            IF MatchingTaskPatterns(user_input) # {}
            THEN Trimmed(FirstPatternCapture(user_input))
            ELSE BeforeFirstPeriod(user_input)

\* 请 stands before 帮我, both patterns match with different captures, and
\* the task is the capture of 帮我.
C9_Witness ==
    /\ analysis # <<>>
    /\ PatternMatches(<<"U5E2E", "U6211">>, user_input)
    /\ PatternMatches(<<"U8BF7">>, user_input)
    /\ FirstOccurrence(<<"U8BF7">>, user_input) < FirstOccurrence(<<"U5E2E", "U6211">>, user_input)
    /\ Trimmed(SearchCapture(<<"U8BF7">>, user_input)) # Trimmed(SearchCapture(<<"U5E2E", "U6211">>, user_input))
    /\ analysis[1].task = Trimmed(SearchCapture(<<"U5E2E", "U6211">>, user_input))
    /\ analysis[1].task # <<>>

(***************************************************************************)
(* C10                                                                     *)
(***************************************************************************)

\* 要求：, 需要, 必须
RequirementLeadIns == << <<"U8981", "U6C42", "UFF1A">>, <<"U9700", "U8981">>, <<"U5FC5", "U987B">> >>

NoRequirementMatches(s) ==
    \A k \in 1..Len(RequirementLeadIns) : ~PatternMatches(RequirementLeadIns[k], s)

\* Every capture of 要求：, then every capture of 需要, then every capture
\* of 必须, each in text order, trimmed.
CollectedRequirements(s) ==
    AllCaptures(RequirementLeadIns[1], s)
    \o AllCaptures(RequirementLeadIns[2], s)
    \o AllCaptures(RequirementLeadIns[3], s)

\* C10 as stated: the result is every trimmed capture of every pattern, in
\* pattern order and then text order, and the single default requirement is
\* returned if and only if no pattern matches.
C10_DefaultIffNoMatch ==
    analysis # <<>> =>
        /\ ~NoRequirementMatches(user_input) =>
              analysis[1].requirements = CollectedRequirements(user_input)
        /\ (analysis[1].requirements = << <<"U751F", "U6210", "U9AD8", "U8D28", "U91CF", "U7684", "U56DE", "U7B54">> >>)
              <=> NoRequirementMatches(user_input)

\* C10 amended: the result is every trimmed capture of every pattern, in
\* pattern order and then text order, whenever some pattern matches, and the
\* single default requirement whenever none matches; a result equal to the
\* default also arises from a match, when the only capture is itself the
\* text 生成高质量的回答.
C10_AllMatchesOrDefault ==
    analysis # <<>> =>
        /\ ~NoRequirementMatches(user_input) =>
              /\ analysis[1].requirements = CollectedRequirements(user_input)
              /\ Len(analysis[1].requirements) >= 1
        /\ NoRequirementMatches(user_input) =>
              analysis[1].requirements = << <<"U751F", "U6210", "U9AD8", "U8D28", "U91CF", "U7684", "U56DE", "U7B54">> >>

\* 必须 matched twice and 需要, which stands after a 必须, matched too: the
\* captures of 需要 come first.
C10_Witness ==
    /\ analysis # <<>>
    /\ Cardinality(Selected(<<"U5FC5", "U987B">>, user_input)) = 2
    /\ Cardinality(Selected(<<"U9700", "U8981">>, user_input)) = 1
    /\ Least(Selected(<<"U5FC5", "U987B">>, user_input)) < Least(Selected(<<"U9700", "U8981">>, user_input))
    /\ Len(analysis[1].requirements) = 3

====
